---- MODULE Spec2Model ----
(***************************************************************************)
(* Model of custom_components/template_climate/climate.py: the             *)
(* TemplateClimate entity.  One entity is constructed from a               *)
(* configuration, added to the host (state restore), and then handles      *)
(* commands and template feed deliveries.                                  *)
(*                                                                         *)
(* Conventions                                                             *)
(*  - An optional Python value is a set with at most one element:          *)
(*    None is {} and a present value v is {v}.  An attribute the entity    *)
(*    never assigned reads as None.                                        *)
(*  - A float is a fixed-point integer in tenths (21.0 is 210).            *)
(*  - A command handler runs atomically up to each `await` of an external  *)
(*    script; while it is suspended there, feed callbacks may run.         *)
(***************************************************************************)
EXTENDS Integers, Sequences, FiniteSets, TLC

VARIABLES
    phase,               \* "constructed" before async_added_to_hass, then "added"
    config,              \* the validated configuration the entity was built from
    optimistic,          \* self._optimistic
    templates,           \* attributes whose self._<x>_template field is not None
    scripts,             \* commands whose self._<x>_script field is not None
    attr,                \* self._attr_<x>, one optional value per attribute
    hvac_features,       \* self._attr_hvac_features
    supported_features,  \* self._attr_supported_features (set of capability bits)
    task,                \* the command handler in flight, or the last one that ended
    event,               \* what the last step did (publishes, scripts run, errors)
    fed,                 \* the latest delivery of each feed since the command in
                         \* flight (or just ended) began
    nops                 \* operations begun so far (bounds the exploration)

vars == <<phase, config, optimistic, templates, scripts, attr, hvac_features,
          supported_features, task, event, fed, nops>>

\* ------------------------------------------------------------------ bounds
MaxOps == 2

\* ------------------------------------------------------------ optional values
None == {}
Some(v) == {v}
IsNone(o) == o = {}
Val(o) == CHOOSE v \in o : TRUE

\* --------------------------------------------------------------- vocabulary
HEAT_COOL == "heat_cool"
OFF == "off"
FAN_OFF == "off"
SWING_OFF == "off"
SWING_HORIZONTAL_OFF == "off"
STATE_UNKNOWN == "unknown"
STATE_UNAVAILABLE == "unavailable"

HVAC_MODES == {"off", "heat", "cool", "heat_cool", "auto", "dry", "fan_only"}

CURRENT_HVAC_ACTIONS ==
    {"cooling", "defrosting", "drying", "fan", "heating", "idle", "off", "preheating"}

\* class HVACFeature: the nine feature names, in declaration order
HVAC_FEATURES ==
    <<"turn_on", "turn_off", "target_temperature", "target_temperature_range",
      "target_humidity", "preset_mode", "fan_mode", "swing_mode",
      "swing_horizontal_mode">>

FeatureNames == {HVAC_FEATURES[i] : i \in 1..Len(HVAC_FEATURES)}

\* 21.0 and 50.0, in tenths
DEFAULT_INITIAL_TEMPERATURE == 210
DEFAULT_INITIAL_HUMIDITY == 500

FloatAttributes ==
    {"current_temperature", "target_temperature", "target_temperature_low",
     "target_temperature_high", "current_humidity", "target_humidity"}

EnumAttributes ==
    {"hvac_mode", "hvac_action", "preset_mode", "fan_mode", "swing_mode",
     "swing_horizontal_mode"}

Attributes == FloatAttributes \cup EnumAttributes

\* the *_template keys of CLIMATE_SCHEMA, named by the attribute they feed
TemplateKeys == Attributes \cup {"hvac_features"}

\* the action keys of CLIMATE_SCHEMA
ActionKeys ==
    {"turn_on", "turn_off", "set_temperature", "set_humidity", "set_hvac_mode",
     "set_preset_mode", "set_fan_mode", "set_swing_mode",
     "set_swing_horizontal_mode"}

\* ------------------------------------------------------------ configurations
\* The configurations explored: the optimistic flag, which templates and
\* which actions are declared, and the mode list.  The other value lists are
\* fixed (fan, swing and horizontal swing at their schema defaults).
TemplateChoices ==
    { {},
      {"target_temperature", "hvac_action", "fan_mode"},
      {"target_temperature_low", "target_temperature_high", "current_temperature",
       "preset_mode"},
      {"hvac_mode", "swing_horizontal_mode", "target_humidity"},
      {"hvac_features", "current_humidity", "swing_mode"} }

ActionChoices ==
    { {}, ActionKeys }

ModeChoices ==
    { {"auto", "heat"}, {"off", "heat", "heat_cool"} }

Configs ==
    [ optimistic : BOOLEAN,
      templates : TemplateChoices,
      actions : ActionChoices,
      modes : ModeChoices,
      preset_modes : {{"eco", "away"}},
      fan_modes : {{"off", "on"}},
      swing_modes : {{"on", "off"}},
      swing_horizontal_modes : {{"on", "off"}} ]

\* --------------------------------------------------------------- construction
\* _init_templates copies each template key it reads into its private field.
\* CONF_SWING_HORIZONTAL_MODE_TEMPLATE is declared in the schema but is not
\* read here, so that field keeps its class default None.
TemplateKeysRead ==
    {"current_temperature", "target_temperature", "target_temperature_low",
     "target_temperature_high", "current_humidity", "target_humidity",
     "hvac_mode", "hvac_action", "hvac_features", "preset_mode", "fan_mode",
     "swing_mode"}

_init_templates(c) == c.templates \cap TemplateKeysRead

\* _init_scripts builds a Script for each action key it reads.
\* CONF_SET_SWING_HORIZONTAL_MODE_ACTION is not read, so that field stays None.
ActionKeysRead ==
    {"turn_on", "turn_off", "set_temperature", "set_humidity", "set_hvac_mode",
     "set_preset_mode", "set_fan_mode", "set_swing_mode"}

_init_scripts(c) == c.actions \cap ActionKeysRead

\* _init_features: the static capability set; left at the class default (no
\* capability) when a features template is configured.
_init_features(opt, tpl, scr) ==
    IF "hvac_features" \in tpl THEN {}
    ELSE {"turn_on", "turn_off"}
         \cup (IF opt \/ "target_temperature" \in tpl \/ "set_temperature" \in scr
               THEN {"target_temperature"} ELSE {})
         \cup (IF \/ opt
                  \/ "target_temperature_low" \in tpl
                  \/ "target_temperature_high" \in tpl
                  \/ "set_temperature" \in scr
               THEN {"target_temperature_range"} ELSE {})
         \cup (IF "target_humidity" \in tpl \/ "set_humidity" \in scr
               THEN {"target_humidity"} ELSE {})
         \cup (IF "preset_mode" \in tpl \/ "set_preset_mode" \in scr
               THEN {"preset_mode"} ELSE {})
         \cup (IF "fan_mode" \in tpl \/ "set_fan_mode" \in scr
               THEN {"fan_mode"} ELSE {})
         \cup (IF "swing_mode" \in tpl \/ "set_swing_mode" \in scr
               THEN {"swing_mode"} ELSE {})
         \cup (IF "swing_horizontal_mode" \in tpl
                  \/ "set_swing_horizontal_mode" \in scr
               THEN {"swing_horizontal_mode"} ELSE {})

\* _init_optimistic_state: the defaults of the attributes the entity owns.
Ungoverned(opt, tpl, a) == a \notin tpl \/ opt

_init_optimistic_state(c, opt, tpl) ==
    [a \in Attributes |->
        CASE a \in {"target_temperature", "target_temperature_low",
                    "target_temperature_high"} ->
                IF Ungoverned(opt, tpl, a)
                THEN Some(DEFAULT_INITIAL_TEMPERATURE) ELSE None
          [] a = "target_humidity" ->
                IF Ungoverned(opt, tpl, a)
                THEN Some(DEFAULT_INITIAL_HUMIDITY) ELSE None
          [] a = "hvac_mode" ->
                IF Ungoverned(opt, tpl, a) /\ OFF \in c.modes
                THEN Some(OFF) ELSE None
          [] a = "fan_mode" ->
                IF Ungoverned(opt, tpl, a) /\ FAN_OFF \in c.fan_modes
                THEN Some(FAN_OFF) ELSE None
          [] a = "swing_mode" ->
                IF Ungoverned(opt, tpl, a) /\ SWING_OFF \in c.swing_modes
                THEN Some(SWING_OFF) ELSE None
          [] a = "swing_horizontal_mode" ->
                IF Ungoverned(opt, tpl, a)
                   /\ SWING_HORIZONTAL_OFF \in c.swing_horizontal_modes
                THEN Some(SWING_HORIZONTAL_OFF) ELSE None
          [] OTHER -> None]

\* the value list an enum attribute is checked against
ValidValues(c, a) ==
    CASE a = "hvac_mode" -> c.modes
      [] a = "hvac_action" -> CURRENT_HVAC_ACTIONS
      [] a = "preset_mode" -> c.preset_modes
      [] a = "fan_mode" -> c.fan_modes
      [] a = "swing_mode" -> c.swing_modes
      [] a = "swing_horizontal_mode" -> c.swing_horizontal_modes

\* ------------------------------------------------------------- feed values
\* A value a template feed delivers: Python None, a string (its characters,
\* and the same text as one atom for membership tests), a number (tenths),
\* or a list.
RawNone == [kind |-> "none", str |-> "", chars |-> <<>>, num |-> 0, tokens |-> <<>>]
RawStr(s, cs) == [kind |-> "str", str |-> s, chars |-> cs, num |-> 0, tokens |-> <<>>]
RawNum(n) == [kind |-> "num", str |-> "", chars |-> <<>>, num |-> n, tokens |-> <<>>]
RawList == [kind |-> "list", str |-> "", chars |-> <<>>, num |-> 0, tokens |-> <<>>]

RawUnknown == RawStr(STATE_UNKNOWN, <<"u", "n", "k", "n", "o", "w", "n">>)
RawUnavailable ==
    RawStr(STATE_UNAVAILABLE, <<"u", "n", "a", "v", "a", "i", "l", "a", "b", "l", "e">>)

\* value in (STATE_UNAVAILABLE, STATE_UNKNOWN)
IsSentinel(raw) == raw.kind = "str" /\ raw.str \in {STATE_UNAVAILABLE, STATE_UNKNOWN}

\* the float feed deliveries explored
RawFloatValues ==
    { RawNone, RawUnknown, RawUnavailable,
      RawStr("20.5", <<"2", "0", ".", "5">>),
      RawStr("abc", <<"a", "b", "c">>),
      RawNum(220),
      RawList }

\* the enum feed deliveries explored, per attribute
EnumCandidates(a) ==
    CASE a = "hvac_mode" -> {"heat", "heat_cool"}
      [] a = "hvac_action" -> {"heating"}
      [] a = "preset_mode" -> {"eco"}
      [] OTHER -> {"on"}

RawEnumValues(a) ==
    {RawNone, RawUnknown, RawUnavailable, RawStr("bogus", <<"b", "o", "g", "u", "s">>)}
    \cup {RawStr(s, <<>>) : s \in EnumCandidates(a)}

\* ------------------------------------------------------------------- float()
Digits == <<"0", "1", "2", "3", "4", "5", "6", "7", "8", "9">>
IsDigit(ch) == \E i \in 1..10 : Digits[i] = ch
DigitValue(ch) == (CHOOSE i \in 1..10 : Digits[i] = ch) - 1

RECURSIVE StripLeft(_)
StripLeft(cs) == IF cs # <<>> /\ Head(cs) = " " THEN StripLeft(Tail(cs)) ELSE cs

RECURSIVE StripRight(_)
StripRight(cs) ==
    IF cs # <<>> /\ cs[Len(cs)] = " " THEN StripRight(SubSeq(cs, 1, Len(cs) - 1)) ELSE cs

RECURSIVE DigitsValue(_)
DigitsValue(cs) ==
    IF cs = <<>> THEN 0 ELSE DigitsValue(SubSeq(cs, 1, Len(cs) - 1)) * 10 + DigitValue(cs[Len(cs)])

AllDigits(cs) == \A i \in 1..Len(cs) : IsDigit(cs[i])

\* float(str): optional blanks, optional sign, digits with at most one point
\* and at least one digit.  The value is in tenths: digits after the first
\* fractional one are below the resolution of the model.
ParseFloat(chars) ==
    LET s == StripRight(StripLeft(chars))
        signed == s # <<>> /\ Head(s) \in {"+", "-"}
        body == IF signed THEN Tail(s) ELSE s
        sign == IF signed /\ Head(s) = "-" THEN -1 ELSE 1
        dots == {i \in 1..Len(body) : body[i] = "."}
        int == IF dots = {} THEN body ELSE SubSeq(body, 1, (CHOOSE i \in dots : TRUE) - 1)
        frac == IF dots = {} THEN <<>>
                ELSE SubSeq(body, (CHOOSE i \in dots : TRUE) + 1, Len(body))
        ok == /\ Cardinality(dots) <= 1
              /\ AllDigits(int) /\ AllDigits(frac)
              /\ Len(int) + Len(frac) > 0
    IN  IF ok
        THEN [ok |-> TRUE, error |-> "",
              value |-> sign * (DigitsValue(int) * 10
                                + (IF frac = <<>> THEN 0 ELSE DigitValue(frac[1])))]
        ELSE [ok |-> FALSE, error |-> "ValueError", value |-> 0]

\* float(value) for any delivered value
Float(raw) ==
    CASE raw.kind = "num" -> [ok |-> TRUE, error |-> "", value |-> raw.num]
      [] raw.kind = "str" -> ParseFloat(raw.chars)
      [] OTHER -> [ok |-> FALSE, error |-> "TypeError", value |-> 0]

\* ------------------------------------------------------------- feed handlers
\* Each handler yields the new optional value of its attribute, whether it
\* logged an error, and the exception it lets escape ("" for none).  No
\* handler calls async_write_ha_state.

\* Mutant: a value that cannot be coerced clears the attribute.
UpdateFloat_ClearsOnError(old, raw) ==
    IF raw.kind = "none" \/ IsSentinel(raw) \/ ~Float(raw).ok
    THEN [value |-> None, logged |-> ~Float(raw).ok, raised |-> ""]
    ELSE [value |-> Some(Float(raw).value), logged |-> FALSE, raised |-> ""]

\* Mutant: the sentinels are handed to float() like any other string.
UpdateFloat_SentinelToFloat(old, raw) ==
    IF raw.kind = "none"
    THEN [value |-> None, logged |-> FALSE, raised |-> ""]
    ELSE IF Float(raw).ok
         THEN [value |-> Some(Float(raw).value), logged |-> FALSE, raised |-> ""]
         ELSE [value |-> old, logged |-> TRUE, raised |-> ""]

\* _update_float
_update_float(old, raw) ==
    IF raw.kind = "none" \/ IsSentinel(raw)
    THEN [value |-> None, logged |-> FALSE, raised |-> ""]
    ELSE IF Float(raw).ok
         THEN [value |-> Some(Float(raw).value), logged |-> FALSE, raised |-> ""]
         ELSE IF Float(raw).error \in {"ValueError", "TypeError"}
              THEN [value |-> old, logged |-> TRUE, raised |-> ""]
              ELSE [value |-> old, logged |-> FALSE, raised |-> Float(raw).error]

\* Mutant: an invalid value leaves the attribute as it was.
UpdateEnum_KeepsOnError(valid_values, old, raw) ==
    IF raw.kind = "str" /\ raw.str \in valid_values
    THEN [value |-> Some(raw.str), logged |-> FALSE, raised |-> ""]
    ELSE IF IsSentinel(raw)
         THEN [value |-> None, logged |-> FALSE, raised |-> ""]
         ELSE [value |-> old, logged |-> TRUE, raised |-> ""]

\* _update_enum
_update_enum(valid_values, old, raw) ==
    IF raw.kind = "str" /\ raw.str \in valid_values
    THEN [value |-> Some(raw.str), logged |-> FALSE, raised |-> ""]
    ELSE IF IsSentinel(raw)
         THEN [value |-> None, logged |-> FALSE, raised |-> ""]
         ELSE [value |-> None, logged |-> TRUE, raised |-> ""]

\* ------------------------------------------------------------ feature lists
\* self._attr_hvac_features: None, a list of names, or (after a restore) one
\* bare string.
NoFeatures == [kind |-> "none", list |-> <<>>, str |-> ""]
FeatureList(l) == [kind |-> "list", list |-> l, str |-> ""]
FeatureStr(s) == [kind |-> "str", list |-> <<>>, str |-> s]

Elems(l) == {l[i] : i \in 1..Len(l)}

\* `sub in s` for two strings of the feature vocabulary: Python string
\* containment; the only proper containment among the nine names is
\* "target_temperature" in "target_temperature_range".
Substring(sub, s) ==
    sub = s \/ (sub = "target_temperature" /\ s = "target_temperature_range")

\* `name in features`, where features = self._attr_hvac_features or []
InFeatures(name, hf) ==
    CASE hf.kind = "list" -> name \in Elems(hf.list)
      [] hf.kind = "str" -> hf.str # "" /\ Substring(name, hf.str)
      [] OTHER -> FALSE

\* _update_supported_features: the capability bit of every vocabulary name
\* found in the feature list
_update_supported_features(hf) == {n \in FeatureNames : InFeatures(n, hf)}

\* The text a features feed delivers, as JSON tokens: punctuation, a quoted
\* string, a number, or a bare word that is no JSON token.
Punct(s) == [t |-> "punct", s |-> s]
QStr(s) == [t |-> "str", s |-> s]
JNum(s) == [t |-> "num", s |-> s]
Word(s) == [t |-> "word", s |-> s]

RawFeaturesNone == RawNone
RawFeaturesText(ts) ==
    [kind |-> "text", str |-> "", chars |-> <<>>, num |-> 0, tokens |-> ts]

IsJsonScalar(tk) == tk.t \in {"str", "num"}

\* the tokens between the brackets: value (, value)*  or nothing
JsonItemsOk(inner) ==
    \/ inner = <<>>
    \/ /\ Len(inner) % 2 = 1
       /\ \A i \in 1..Len(inner) :
            IF i % 2 = 1 THEN IsJsonScalar(inner[i]) ELSE inner[i] = Punct(",")

\* json.loads: a list of scalars, another JSON value, or a ValueError
JsonLoads(ts) ==
    LET n == Len(ts)
        inner == SubSeq(ts, 2, n - 1)
    IN  IF n >= 2 /\ ts[1] = Punct("[") /\ ts[n] = Punct("]") /\ JsonItemsOk(inner)
        THEN [ok |-> TRUE, is_list |-> TRUE,
              items |-> [k \in 1..((Len(inner) + 1) \div 2) |-> inner[2 * k - 1].s]]
        ELSE IF \/ (n = 1 /\ IsJsonScalar(ts[1]))
                \/ (n = 2 /\ ts[1] = Punct("{") /\ ts[2] = Punct("}"))
             THEN [ok |-> TRUE, is_list |-> FALSE, items |-> <<>>]
             ELSE [ok |-> FALSE, is_list |-> FALSE, items |-> <<>>]

\* str(value) of a text that is not JSON: the whole text as one name
WholeText(ts) == IF Len(ts) = 1 THEN ts[1].s ELSE "<text>"

RECURSIVE KeepFeatures(_)
KeepFeatures(l) ==
    IF l = <<>> THEN <<>>
    ELSE (IF Head(l) \in FeatureNames THEN <<Head(l)>> ELSE <<>>) \o KeepFeatures(Tail(l))

\* Mutant: a delivery with a name outside the vocabulary is refused whole.
UpdateFeatures_RejectsUnknown(raw, hf, sf) ==
    IF raw.kind = "none" \/ raw.tokens = <<>>
    THEN [hvac_features |-> FeatureList(<<>>), supported_features |-> sf,
          logged |-> FALSE]
    ELSE LET j == JsonLoads(raw.tokens)
             value_list == IF j.ok THEN j.items ELSE <<WholeText(raw.tokens)>>
             features == KeepFeatures(value_list)
         IN  IF (j.ok /\ ~j.is_list) \/ Len(features) # Len(value_list)
             THEN [hvac_features |-> hf, supported_features |-> sf, logged |-> TRUE]
             ELSE [hvac_features |-> FeatureList(features),
                   supported_features |->
                       _update_supported_features(FeatureList(features)),
                   logged |-> FALSE]

\* Mutant: a JSON value that is not a list is taken as one bare name.
UpdateFeatures_ScalarAsName(raw, hf, sf) ==
    IF raw.kind = "none" \/ raw.tokens = <<>>
    THEN [hvac_features |-> FeatureList(<<>>), supported_features |-> sf,
          logged |-> FALSE]
    ELSE LET j == JsonLoads(raw.tokens)
             value_list == IF j.ok /\ j.is_list THEN j.items
                           ELSE <<WholeText(raw.tokens)>>
             features == KeepFeatures(value_list)
         IN  [hvac_features |-> FeatureList(features),
              supported_features |->
                  _update_supported_features(FeatureList(features)),
              logged |-> Len(features) # Len(value_list)]

\* _update_features: the new feature list and capability set, and whether an
\* error was logged
_update_features(raw, hf, sf) ==
    IF raw.kind = "none" \/ raw.tokens = <<>>
    THEN [hvac_features |-> FeatureList(<<>>), supported_features |-> sf,
          logged |-> FALSE]
    ELSE LET j == JsonLoads(raw.tokens)
             value_list == IF j.ok THEN j.items ELSE <<WholeText(raw.tokens)>>
             features == KeepFeatures(value_list)
         IN  IF j.ok /\ ~j.is_list
             THEN [hvac_features |-> hf, supported_features |-> sf, logged |-> TRUE]
             ELSE [hvac_features |-> FeatureList(features),
                   supported_features |->
                       _update_supported_features(FeatureList(features)),
                   logged |-> Len(features) # Len(value_list)]

\* the features feed deliveries explored
RawFeatureValues ==
    { RawFeaturesNone,
      RawFeaturesText(<<>>),
      RawFeaturesText(<<Punct("["), QStr("turn_on"), Punct(","), QStr("fan_mode"),
                        Punct("]")>>),
      RawFeaturesText(<<Punct("["), QStr("target_temperature_range"), Punct(","),
                        QStr("bogus"), Punct("]")>>),
      RawFeaturesText(<<Word("turn_on")>>),
      RawFeaturesText(<<Word("not_a_feature")>>),
      RawFeaturesText(<<JNum("5")>>),
      RawFeaturesText(<<Punct("{"), Punct("}")>>) }

\* ----------------------------------------------------------------- restore
\* The state the host's restore service returns: none, or the last state
\* string and attributes.  Attributes are keyed by the entity attribute they
\* restore (ATTR_TEMPERATURE restores target_temperature, and so on).
NoAttributes == [a \in Attributes \ {"hvac_mode"} |-> None]

NoLastState ==
    [present |-> FALSE, state |-> "", attributes |-> NoAttributes,
     hvac_features |-> NoFeatures]

LastStates ==
    { NoLastState,
      [present |-> TRUE, state |-> "heat_cool",
       attributes |->
           [a \in Attributes \ {"hvac_mode"} |->
               CASE a = "target_temperature" -> Some(230)
                 [] a = "target_temperature_low" -> Some(190)
                 [] a = "target_temperature_high" -> Some(260)
                 [] a = "current_temperature" -> Some(215)
                 [] a = "current_humidity" -> Some(400)
                 [] a = "target_humidity" -> Some(450)
                 [] a = "hvac_action" -> Some("heating")
                 [] a = "preset_mode" -> Some("eco")
                 [] OTHER -> Some("on")],
       hvac_features |-> FeatureList(<<"turn_on", "fan_mode">>)],
      [present |-> TRUE, state |-> "cool",
       attributes |->
           [a \in Attributes \ {"hvac_mode"} |->
               IF a \in FloatAttributes THEN None ELSE Some("bogus")],
       hvac_features |-> FeatureStr("target_temperature_range")] }

\* Mutant: the restored mode is taken without looking at the configured list.
RestoreAttributes_AnyMode(c, a0, ls) ==
    [a \in Attributes |->
        IF a = "hvac_mode"
        THEN Some(ls.state)
        ELSE IF a \in FloatAttributes
             THEN IF ls.attributes[a] # None THEN ls.attributes[a] ELSE a0[a]
             ELSE IF ls.attributes[a] # None
                     /\ Val(ls.attributes[a]) \in ValidValues(c, a)
                  THEN ls.attributes[a] ELSE a0[a]]

\* async_added_to_hass, the attribute part
RestoreAttributes(c, a0, ls) ==
    [a \in Attributes |->
        IF a = "hvac_mode"
        THEN IF ls.state \in c.modes THEN Some(ls.state) ELSE a0[a]
        ELSE IF a \in FloatAttributes
             THEN IF ls.attributes[a] # None THEN ls.attributes[a] ELSE a0[a]
             ELSE IF ls.attributes[a] # None
                     /\ Val(ls.attributes[a]) \in ValidValues(c, a)
                  THEN ls.attributes[a] ELSE a0[a]]

\* Mutant: the restore takes the stored feature name whether or not a
\* features template is configured.
RestoresFeatures_IgnoresTemplate(tpl, ls) ==
    /\ ls.hvac_features.kind = "str"
    /\ ls.hvac_features.str \in FeatureNames

\* async_added_to_hass, the feature part:
\* last_attributes.get(ATTR_HVAC_FEATURES) in HVAC_FEATURES holds for a bare
\* string of the vocabulary, never for a list.
RestoresFeatures(tpl, ls) ==
    /\ "hvac_features" \in tpl
    /\ ls.hvac_features.kind = "str"
    /\ ls.hvac_features.str \in FeatureNames

\* ----------------------------------------------------------------- commands
\* The keyword arguments of a command.  `mode` carries hvac_mode for
\* set_temperature and set_hvac_mode, and the requested value for the preset,
\* fan and swing commands.
NoArgs ==
    [mode |-> None, temperature |-> None, temperature_low |-> None,
     temperature_high |-> None, humidity |-> None]

\* one run of an external script, with its run_variables
Invocation(script, run_variables) == [script |-> script, vars |-> run_variables]

\* What a handler did from where it started (or resumed) to where it next
\* suspends or ends: the attributes, where it stands, the number of
\* async_write_ha_state calls, the scripts started, the attributes assigned,
\* and the exception raised ("" for none).
Out(a, at, pubs, invoked, wrote, error) ==
    [attr |-> a, at |-> at, pubs |-> pubs, invoked |-> invoked, wrote |-> wrote,
     error |-> error]

Then(o1, o2) ==
    Out(o2.attr, o2.at, o1.pubs + o2.pubs, o1.invoked \o o2.invoked,
        o1.wrote \cup o2.wrote, o2.error)

Awaiting == {"await_set_hvac_mode_script", "await_script"}

\* Mutant: a command may always write, template or not.
CanWrite_IgnoresTemplate(attribute) == TRUE

\* Mutant: the optimistic flag is not consulted.
CanWrite_IgnoresOptimistic(attribute) == attribute \notin templates

\* self._optimistic or self._<attribute>_template is None
CanWrite(attribute) == optimistic \/ attribute \notin templates

\* Mutant: the effective mode ignores the entity's current mode.
Validate_IgnoresCurrentMode(current_mode, args) ==
    LET is_heat_cool == args.mode = Some(HEAT_COOL)
    IN  CASE is_heat_cool /\ args.temperature_low = None -> "missing_target_temp_low"
          [] is_heat_cool /\ args.temperature_high = None -> "missing_target_temp_high"
          [] is_heat_cool /\ args.temperature # None -> "temperature_in_heat_cool"
          [] ~is_heat_cool
             /\ (args.temperature_low # None \/ args.temperature_high # None) ->
                "range_outside_heat_cool"
          [] OTHER -> "ok"

\* Mutant: outside heat_cool a range is refused only when both ends are given.
Validate_RangeNeedsBoth(current_mode, args) ==
    LET is_heat_cool ==
            \/ args.mode = Some(HEAT_COOL)
            \/ (args.mode = None /\ current_mode = Some(HEAT_COOL))
    IN  CASE is_heat_cool /\ args.temperature_low = None -> "missing_target_temp_low"
          [] is_heat_cool /\ args.temperature_high = None -> "missing_target_temp_high"
          [] is_heat_cool /\ args.temperature # None -> "temperature_in_heat_cool"
          [] ~is_heat_cool
             /\ (args.temperature_low # None /\ args.temperature_high # None) ->
                "range_outside_heat_cool"
          [] OTHER -> "ok"

\* _validate_set_temperature_arguments: "ok", or the ValueError raised
_validate_set_temperature_arguments(current_mode, args) ==
    LET is_heat_cool ==
            \/ args.mode = Some(HEAT_COOL)
            \/ (args.mode = None /\ current_mode = Some(HEAT_COOL))
    IN  CASE is_heat_cool /\ args.temperature_low = None -> "missing_target_temp_low"
          [] is_heat_cool /\ args.temperature_high = None -> "missing_target_temp_high"
          [] is_heat_cool /\ args.temperature # None -> "temperature_in_heat_cool"
          [] ~is_heat_cool
             /\ (args.temperature_low # None \/ args.temperature_high # None) ->
                "range_outside_heat_cool"
          [] OTHER -> "ok"

\* _set_temperature_attribute
_set_temperature_attribute(a0, temp, attribute) ==
    IF temp = None
    THEN [attr |-> a0, changed |-> FALSE]
    ELSE IF CanWrite(attribute)
         THEN [attr |-> [a0 EXCEPT ![attribute] = temp], changed |-> TRUE]
         ELSE [attr |-> a0, changed |-> FALSE]

\* async_set_temperature, after its script: the three guarded setpoint
\* writes and the publish
SetpointWrite(a0, args) ==
    LET skip(a) == [attr |-> a, changed |-> FALSE]
        r1 == IF CanWrite("target_temperature") /\ args.temperature # None
              THEN _set_temperature_attribute(a0, args.temperature, "target_temperature")
              ELSE skip(a0)
        r2 == IF CanWrite("target_temperature_low") /\ args.temperature_low # None
              THEN _set_temperature_attribute(r1.attr, args.temperature_low,
                                              "target_temperature_low")
              ELSE skip(r1.attr)
        r3 == IF CanWrite("target_temperature_high") /\ args.temperature_high # None
              THEN _set_temperature_attribute(r2.attr, args.temperature_high,
                                              "target_temperature_high")
              ELSE skip(r2.attr)
        changed == r1.changed \/ r2.changed \/ r3.changed
    IN  Out(r3.attr, "done", IF changed THEN 1 ELSE 0, <<>>,
            (IF r1.changed THEN {"target_temperature"} ELSE {})
            \cup (IF r2.changed THEN {"target_temperature_low"} ELSE {})
            \cup (IF r3.changed THEN {"target_temperature_high"} ELSE {}),
            "")

\* async_set_temperature from its script call on
SetTemperatureTail(a0, args) ==
    IF "set_temperature" \in scripts
    THEN Out(a0, "await_script", 0, <<Invocation("set_temperature", args)>>, {}, "")
    ELSE SetpointWrite(a0, args)

\* Mutant: the mode is written and published even when it is the current one.
HvacModeWrite_Always(a0, hvac_mode) ==
    IF CanWrite("hvac_mode")
    THEN Out([a0 EXCEPT !["hvac_mode"] = Some(hvac_mode)], "done", 1, <<>>,
             {"hvac_mode"}, "")
    ELSE Out(a0, "done", 0, <<>>, {}, "")

\* Mutant: a mode change puts the stored setpoints back to the initial value.
HvacModeWrite_ResetsSetpoints(a0, hvac_mode) ==
    IF CanWrite("hvac_mode") /\ Some(hvac_mode) # a0["hvac_mode"]
    THEN Out([a \in Attributes |->
                 IF a = "hvac_mode" THEN Some(hvac_mode)
                 ELSE IF a \in {"target_temperature", "target_temperature_low",
                                "target_temperature_high"}
                      THEN Some(DEFAULT_INITIAL_TEMPERATURE)
                      ELSE a0[a]],
             "done", 1, <<>>, {"hvac_mode"}, "")
    ELSE Out(a0, "done", 0, <<>>, {}, "")

\* async_set_hvac_mode, after its script: the guarded mode write
HvacModeWrite(a0, hvac_mode) ==
    IF CanWrite("hvac_mode") /\ Some(hvac_mode) # a0["hvac_mode"]
    THEN Out([a0 EXCEPT !["hvac_mode"] = Some(hvac_mode)], "done", 1, <<>>,
             {"hvac_mode"}, "")
    ELSE Out(a0, "done", 0, <<>>, {}, "")

\* what follows the script of async_set_hvac_mode inside command `cmd`
AfterSetHvacMode(cmd, a0, args) ==
    LET w == HvacModeWrite(a0, Val(args.mode))
    IN  IF cmd = "set_temperature" THEN Then(w, SetTemperatureTail(w.attr, args)) ELSE w

\* async_set_hvac_mode, called for command `cmd`
async_set_hvac_mode(cmd, a0, args) ==
    IF "set_hvac_mode" \in scripts
    THEN Out(a0, "await_set_hvac_mode_script", 0,
             <<Invocation("set_hvac_mode", [NoArgs EXCEPT !.mode = args.mode])>>,
             {}, "")
    ELSE AfterSetHvacMode(cmd, a0, args)

\* Mutant: the arguments are validated after the mode change and the script.
SetTemperature_ValidatesLast(a0, args) ==
    LET o == IF args.mode # None /\ Val(args.mode) \in config.modes
             THEN async_set_hvac_mode("set_temperature", a0, args)
             ELSE SetTemperatureTail(a0, args)
    IN  IF _validate_set_temperature_arguments(a0["hvac_mode"], args) # "ok"
        THEN [o EXCEPT !.at = "raised", !.error = "ValueError"]
        ELSE o

\* Mutant: the carried mode is applied without looking at the configured list.
SetTemperature_AnyCarriedMode(a0, args) ==
    IF _validate_set_temperature_arguments(a0["hvac_mode"], args) # "ok"
    THEN Out(a0, "raised", 0, <<>>, {}, "ValueError")
    ELSE IF args.mode # None
         THEN async_set_hvac_mode("set_temperature", a0, args)
         ELSE SetTemperatureTail(a0, args)

\* async_set_temperature
async_set_temperature(a0, args) ==
    IF _validate_set_temperature_arguments(a0["hvac_mode"], args) # "ok"
    THEN Out(a0, "raised", 0, <<>>, {}, "ValueError")
    ELSE IF args.mode # None /\ Val(args.mode) \in config.modes
         THEN async_set_hvac_mode("set_temperature", a0, args)
         ELSE SetTemperatureTail(a0, args)

\* the attribute a single-value set command assigns, and the value it carries
CommandAttribute(cmd) ==
    CASE cmd = "set_humidity" -> "target_humidity"
      [] cmd = "set_hvac_mode" -> "hvac_mode"
      [] cmd = "set_preset_mode" -> "preset_mode"
      [] cmd = "set_fan_mode" -> "fan_mode"
      [] cmd = "set_swing_mode" -> "swing_mode"
      [] cmd = "set_swing_horizontal_mode" -> "swing_horizontal_mode"

CommandValue(cmd, args) == IF cmd = "set_humidity" THEN args.humidity ELSE args.mode

\* Mutant: the write that ends a set command is not guarded.
LocalWrite_Unguarded(a0, attribute, value) ==
    Out([a0 EXCEPT ![attribute] = value], "done", 1, <<>>, {attribute}, "")

\* the guarded write and publish that end async_set_humidity,
\* async_set_preset_mode, async_set_fan_mode, async_set_swing_mode and
\* async_set_swing_horizontal_mode
LocalWrite(a0, attribute, value) ==
    IF CanWrite(attribute)
    THEN Out([a0 EXCEPT ![attribute] = value], "done", 1, <<>>, {attribute}, "")
    ELSE Out(a0, "done", 0, <<>>, {}, "")

\* those five handlers: run the script if there is one, then write
SimpleSet(cmd, a0, args) ==
    IF cmd \in scripts
    THEN Out(a0, "await_script", 0, <<Invocation(cmd, args)>>, {}, "")
    ELSE LocalWrite(a0, CommandAttribute(cmd), CommandValue(cmd, args))

async_set_humidity(a0, args) == SimpleSet("set_humidity", a0, args)
async_set_preset_mode(a0, args) == SimpleSet("set_preset_mode", a0, args)
async_set_fan_mode(a0, args) == SimpleSet("set_fan_mode", a0, args)
async_set_swing_mode(a0, args) == SimpleSet("set_swing_mode", a0, args)
async_set_swing_horizontal_mode(a0, args) ==
    SimpleSet("set_swing_horizontal_mode", a0, args)

\* what follows the handler's own script once it has completed
AfterScript(cmd, a0, args) ==
    CASE cmd = "set_temperature" -> SetpointWrite(a0, args)
      [] cmd \in {"turn_on", "turn_off"} -> Out(a0, "done", 0, <<>>, {}, "")
      [] OTHER -> LocalWrite(a0, CommandAttribute(cmd), CommandValue(cmd, args))

\* --------------------------------------------------------------- bookkeeping
NoTask ==
    [cmd |-> "", args |-> NoArgs, at |-> "none", pubs |-> 0, invoked |-> <<>>,
     wrote |-> {}, error |-> ""]

\* What the last step was and did; `before` is the entity's state when the
\* step began, and `after_bad` tells that the step is a feed delivery that
\* directly follows a delivery of the same feed that was logged as invalid.
Before ==
    [attr |-> attr, hvac_features |-> hvac_features,
     supported_features |-> supported_features]

Event(type, name, raw, ls, out, logged, raised) ==
    [type |-> type, name |-> name, raw |-> raw, last_state |-> ls,
     pubs |-> out.pubs, invoked |-> out.invoked, wrote |-> out.wrote,
     logged |-> logged, raised |-> raised, before |-> Before,
     after_bad |-> /\ type = "feed"
                   /\ event.type = "feed"
                   /\ event.name = name
                   /\ event.logged]

\* a step that runs no command code
NoOut == [pubs |-> 0, invoked |-> <<>>, wrote |-> {}]

\* no feed has delivered since the command began
NoDeliveries ==
    [a \in Attributes |-> [seen |-> FALSE, ok |-> FALSE, value |-> None]]

\* the command values explored
CommandModes == {"heat", "heat_cool"}
CommandTemperatures == {250}
CommandLows == {180}
CommandHighs == {270}
CommandHumidities == {600}
CommandEnumValues == {"on"}
CommandPresets == {"eco"}

SetTemperatureArgs ==
    [mode : {None} \cup {Some(m) : m \in CommandModes},
     temperature : {None} \cup {Some(t) : t \in CommandTemperatures},
     temperature_low : {None} \cup {Some(t) : t \in CommandLows},
     temperature_high : {None} \cup {Some(t) : t \in CommandHighs},
     humidity : {None}]

\* ------------------------------------------------------------------ actions
\* __init__
Init ==
    /\ config \in Configs
    /\ optimistic = config.optimistic
    /\ templates = _init_templates(config)
    /\ scripts = _init_scripts(config)
    /\ supported_features = _init_features(optimistic, templates, scripts)
    /\ attr = _init_optimistic_state(config, optimistic, templates)
    /\ hvac_features = NoFeatures
    /\ phase = "constructed"
    /\ task = NoTask
    /\ event = Event("construct", "", RawNone, NoLastState, NoOut, FALSE, "")
    /\ fed = NoDeliveries
    /\ nops = 0

\* async_added_to_hass: restore from the last state, if there is one
AddedToHass ==
    /\ phase = "constructed"
    /\ \E ls \in LastStates :
        /\ attr' = IF ls.present THEN RestoreAttributes(config, attr, ls) ELSE attr
        /\ IF ls.present /\ RestoresFeatures(templates, ls)
           THEN /\ hvac_features' = ls.hvac_features
                /\ supported_features' = _update_supported_features(ls.hvac_features)
           ELSE UNCHANGED <<hvac_features, supported_features>>
        /\ event' = Event("restore", "", RawNone, ls, NoOut, FALSE, "")
    /\ phase' = "added"
    /\ UNCHANGED <<config, optimistic, templates, scripts, task, fed, nops>>

\* Mutant: the single setpoint is exposed in every mode.
target_temperature_Stored == attr["target_temperature"]

\* the target_temperature property
target_temperature ==
    IF attr["hvac_mode"] = Some(HEAT_COOL) THEN None ELSE attr["target_temperature"]

\* the target_temperature_low property
target_temperature_low ==
    IF attr["hvac_mode"] # Some(HEAT_COOL) THEN None ELSE attr["target_temperature_low"]

\* the target_temperature_high property
target_temperature_high ==
    IF attr["hvac_mode"] # Some(HEAT_COOL) THEN None ELSE attr["target_temperature_high"]

\* the extra_state_attributes property: None without a features template
extra_state_attributes ==
    IF "hvac_features" \notin templates THEN None ELSE Some(hvac_features)

\* a command handler starts and runs to its first await or to its end
Start(cmd, args, out) ==
    /\ phase = "added"
    /\ task.at \notin Awaiting
    /\ nops < MaxOps
    /\ attr' = out.attr
    /\ task' = [cmd |-> cmd, args |-> args, at |-> out.at, pubs |-> out.pubs,
                invoked |-> out.invoked, wrote |-> out.wrote, error |-> out.error]
    /\ event' = Event("command", cmd, RawNone, NoLastState, out, FALSE, out.error)
    /\ fed' = NoDeliveries
    /\ nops' = nops + 1
    /\ UNCHANGED <<phase, config, optimistic, templates, scripts, hvac_features,
                   supported_features>>

SetTemperature ==
    \E args \in SetTemperatureArgs :
        Start("set_temperature", args, async_set_temperature(attr, args))

SetHvacMode ==
    \E m \in CommandModes :
        LET args == [NoArgs EXCEPT !.mode = Some(m)]
        IN  Start("set_hvac_mode", args, async_set_hvac_mode("set_hvac_mode", attr, args))

SetHumidity ==
    \E h \in CommandHumidities :
        LET args == [NoArgs EXCEPT !.humidity = Some(h)]
        IN  Start("set_humidity", args, async_set_humidity(attr, args))

SetPresetMode ==
    \E v \in CommandPresets :
        LET args == [NoArgs EXCEPT !.mode = Some(v)]
        IN  Start("set_preset_mode", args, async_set_preset_mode(attr, args))

SetFanMode ==
    \E v \in CommandEnumValues :
        LET args == [NoArgs EXCEPT !.mode = Some(v)]
        IN  Start("set_fan_mode", args, async_set_fan_mode(attr, args))

SetSwingMode ==
    \E v \in CommandEnumValues :
        LET args == [NoArgs EXCEPT !.mode = Some(v)]
        IN  Start("set_swing_mode", args, async_set_swing_mode(attr, args))

SetSwingHorizontalMode ==
    \E v \in CommandEnumValues :
        LET args == [NoArgs EXCEPT !.mode = Some(v)]
        IN  Start("set_swing_horizontal_mode", args,
                  async_set_swing_horizontal_mode(attr, args))

\* async_turn_on: the script if there is one; otherwise the host's default,
\* which either sets one of the configured modes other than off through
\* async_set_hvac_mode or raises NotImplementedError.
TurnOn ==
    IF "turn_on" \in scripts
    THEN Start("turn_on", NoArgs,
               Out(attr, "await_script", 0, <<Invocation("turn_on", NoArgs)>>, {}, ""))
    ELSE \/ \E m \in config.modes \ {OFF} :
               LET args == [NoArgs EXCEPT !.mode = Some(m)]
               IN  Start("turn_on", args, async_set_hvac_mode("turn_on", attr, args))
         \/ Start("turn_on", NoArgs, Out(attr, "raised", 0, <<>>, {}, "NotImplementedError"))

\* async_turn_off: the script if there is one; otherwise the host's default,
\* which sets off through async_set_hvac_mode when off is a configured mode
\* and raises NotImplementedError when it is not.
TurnOff ==
    IF "turn_off" \in scripts
    THEN Start("turn_off", NoArgs,
               Out(attr, "await_script", 0, <<Invocation("turn_off", NoArgs)>>, {}, ""))
    ELSE IF OFF \in config.modes
         THEN LET args == [NoArgs EXCEPT !.mode = Some(OFF)]
              IN  Start("turn_off", args, async_set_hvac_mode("turn_off", attr, args))
         ELSE Start("turn_off", NoArgs,
                    Out(attr, "raised", 0, <<>>, {}, "NotImplementedError"))

\* the awaited script completes and the handler runs on
ScriptReturns ==
    /\ task.at \in Awaiting
    /\ LET out == IF task.at = "await_set_hvac_mode_script"
                  THEN AfterSetHvacMode(task.cmd, attr, task.args)
                  ELSE AfterScript(task.cmd, attr, task.args)
       IN  /\ attr' = out.attr
           /\ task' = [task EXCEPT !.at = out.at,
                                   !.pubs = @ + out.pubs,
                                   !.invoked = @ \o out.invoked,
                                   !.wrote = @ \cup out.wrote,
                                   !.error = out.error]
           /\ event' = Event("resume", task.cmd, RawNone, NoLastState, out, FALSE,
                             out.error)
    /\ UNCHANGED <<phase, config, optimistic, templates, scripts, hvac_features,
                   supported_features, fed, nops>>

\* Mutant: the handler swallows the script's failure and runs on.
ScriptRaises_RunsOn ==
    /\ task.at \in Awaiting
    /\ LET out == IF task.at = "await_set_hvac_mode_script"
                  THEN HvacModeWrite(attr, Val(task.args.mode))
                  ELSE AfterScript(task.cmd, attr, task.args)
       IN  /\ attr' = out.attr
           /\ task' = [task EXCEPT !.at = "raised",
                                   !.pubs = @ + out.pubs,
                                   !.wrote = @ \cup out.wrote,
                                   !.error = "ScriptError"]
           /\ event' = Event("resume", task.cmd, RawNone, NoLastState, out, FALSE,
                             "ScriptError")
    /\ UNCHANGED <<phase, config, optimistic, templates, scripts, hvac_features,
                   supported_features, fed, nops>>

\* the awaited script fails: the exception leaves the handler
ScriptRaises ==
    /\ task.at \in Awaiting
    /\ task' = [task EXCEPT !.at = "raised", !.error = "ScriptError"]
    /\ event' = Event("resume", task.cmd, RawNone, NoLastState, NoOut, FALSE,
                      "ScriptError")
    /\ UNCHANGED <<phase, config, optimistic, templates, scripts, attr, fed,
                   hvac_features, supported_features, nops>>

\* the deliveries since the command in flight began, with this one: for each
\* feed the value its handler stored and whether the value was accepted
\* without an error; nothing is kept when no command is in flight
Delivered(a, r) ==
    IF task.at \in Awaiting
    THEN [fed EXCEPT ![a] = [seen |-> TRUE, ok |-> ~r.logged /\ r.raised = "",
                             value |-> r.value]]
    ELSE NoDeliveries

\* Mutant: a feed whose last delivery was logged as invalid drops the next
\* delivery.
Feed_DropsAfterError(a, raw, r) ==
    /\ phase = "added"
    /\ a \in templates
    /\ nops < MaxOps
    /\ attr' = IF event.type = "feed" /\ event.name = a /\ event.logged
               THEN attr
               ELSE [attr EXCEPT ![a] = r.value]
    /\ event' = Event("feed", a, raw, NoLastState, NoOut, r.logged, r.raised)
    /\ fed' = Delivered(a, r)
    /\ nops' = nops + 1
    /\ UNCHANGED <<phase, config, optimistic, templates, scripts, hvac_features,
                   supported_features, task>>

\* Mutant: the handler publishes after every delivery.
Feed_AlwaysPublishes(a, raw, r) ==
    /\ phase = "added"
    /\ a \in templates
    /\ nops < MaxOps
    /\ attr' = [attr EXCEPT ![a] = r.value]
    /\ event' = [Event("feed", a, raw, NoLastState, NoOut, r.logged, r.raised)
                    EXCEPT !.pubs = 1]
    /\ fed' = Delivered(a, r)
    /\ nops' = nops + 1
    /\ UNCHANGED <<phase, config, optimistic, templates, scripts, hvac_features,
                   supported_features, task>>

\* a template feed delivers a value to the callback registered for it in
\* _async_setup_templates
Feed(a, raw, r) ==
    /\ phase = "added"
    /\ a \in templates
    /\ nops < MaxOps
    /\ attr' = [attr EXCEPT ![a] = r.value]
    /\ event' = Event("feed", a, raw, NoLastState, NoOut, r.logged, r.raised)
    /\ fed' = Delivered(a, r)
    /\ nops' = nops + 1
    /\ UNCHANGED <<phase, config, optimistic, templates, scripts, hvac_features,
                   supported_features, task>>

UpdateFloat ==
    \E a \in FloatAttributes : \E raw \in RawFloatValues :
        Feed(a, raw, _update_float(attr[a], raw))

UpdateEnum ==
    \E a \in EnumAttributes : \E raw \in RawEnumValues(a) :
        Feed(a, raw, _update_enum(ValidValues(config, a), attr[a], raw))

UpdateFeatures ==
    /\ phase = "added"
    /\ "hvac_features" \in templates
    /\ nops < MaxOps
    /\ \E raw \in RawFeatureValues :
        LET r == _update_features(raw, hvac_features, supported_features)
        IN  /\ hvac_features' = r.hvac_features
            /\ supported_features' = r.supported_features
            /\ event' = Event("feed", "hvac_features", raw, NoLastState, NoOut,
                              r.logged, "")
    /\ fed' = IF task.at \in Awaiting THEN fed ELSE NoDeliveries
    /\ nops' = nops + 1
    /\ UNCHANGED <<phase, config, optimistic, templates, scripts, attr, task>>

Next ==
    \/ AddedToHass
    \/ SetTemperature
    \/ SetHvacMode
    \/ SetHumidity
    \/ SetPresetMode
    \/ SetFanMode
    \/ SetSwingMode
    \/ SetSwingHorizontalMode
    \/ TurnOn
    \/ TurnOff
    \/ ScriptReturns
    \/ ScriptRaises
    \/ UpdateFloat
    \/ UpdateEnum
    \/ UpdateFeatures

Spec == Init /\ [][Next]_vars

\* =================================================================== claims
Setpoints == {"target_temperature", "target_temperature_low", "target_temperature_high"}

\* the step just taken started a command handler of this type
Started(cmd) == event.type = "command" /\ event.name = cmd

\* the step just taken ran command code (a handler started or resumed)
CommandStep == event.type \in {"command", "resume"}

\* the mode a set_temperature command is validated against
EffectiveMode == IF task.args.mode # None THEN task.args.mode ELSE event.before.attr["hvac_mode"]

Rejected == task.at = "raised" /\ task.error = "ValueError"

\* C1: a set_temperature command whose effective mode (the hvac_mode argument,
\* else the entity's current mode) is heat_cool is rejected with a validation
\* error when temperature_low is absent, temperature_high is absent, or
\* temperature is present.
C1_HeatCoolShapeRejected ==
    (/\ Started("set_temperature")
     /\ EffectiveMode = Some(HEAT_COOL)
     /\ \/ task.args.temperature_low = None
        \/ task.args.temperature_high = None
        \/ task.args.temperature # None)
    => Rejected

\* C1 witness: the current mode is heat_cool, no mode is passed, only a single
\* temperature is given, and the command was rejected.
C1_Witness ==
    /\ Started("set_temperature")
    /\ task.args.mode = None
    /\ event.before.attr["hvac_mode"] = Some(HEAT_COOL)
    /\ task.args.temperature # None
    /\ task.args.temperature_low = None
    /\ Rejected

\* C2: a set_temperature command whose effective mode is not heat_cool (an
\* unset current mode included) is rejected with a validation error whenever
\* temperature_low or temperature_high is present.
C2_RangeOutsideHeatCoolRejected ==
    (/\ Started("set_temperature")
     /\ EffectiveMode # Some(HEAT_COOL)
     /\ \/ task.args.temperature_low # None
        \/ task.args.temperature_high # None)
    => Rejected

\* C2 witness: the current mode is unset, no mode is passed, only
\* temperature_high is given, and the command was rejected.
C2_Witness ==
    /\ Started("set_temperature")
    /\ task.args.mode = None
    /\ event.before.attr["hvac_mode"] = None
    /\ task.args.temperature_low = None
    /\ task.args.temperature_high # None
    /\ Rejected

\* C3: a set_temperature command rejected by the validator has no effect: no
\* script is run, no attribute changes, nothing is published.
C3_RejectedHasNoEffect ==
    (Started("set_temperature") /\ Rejected)
    => /\ event.invoked = <<>>
       /\ task.invoked = <<>>
       /\ event.pubs = 0
       /\ event.wrote = {}
       /\ attr = event.before.attr
       /\ hvac_features = event.before.hvac_features
       /\ supported_features = event.before.supported_features

\* C3 witness: a rejected command that carried a configured mode different
\* from the current one, on an entity that owns hvac_mode and has both
\* scripts, so that an unvalidated run would have acted.
C3_Witness ==
    /\ Started("set_temperature")
    /\ Rejected
    /\ task.args.mode # None
    /\ Val(task.args.mode) \in config.modes
    /\ task.args.mode # attr["hvac_mode"]
    /\ {"set_hvac_mode", "set_temperature"} \subseteq scripts
    /\ CanWrite("hvac_mode")

\* the attributes a set command can assign
SettableAttributes ==
    Setpoints \cup {"target_humidity", "hvac_mode", "preset_mode", "fan_mode",
                    "swing_mode", "swing_horizontal_mode"}

\* the single-value set commands
SetCommands ==
    {"set_humidity", "set_hvac_mode", "set_preset_mode", "set_fan_mode",
     "set_swing_mode", "set_swing_horizontal_mode"}

\* a template is configured for the attribute and the entity is not optimistic
Governed(a) == a \in config.templates /\ ~config.optimistic

\* the step just taken ended a handler of this type without an error
Completed(cmd) == CommandStep /\ event.name = cmd /\ task.at = "done"

\* the value a set_temperature command supplies for a setpoint
Supplied(a) ==
    CASE a = "target_temperature" -> task.args.temperature
      [] a = "target_temperature_low" -> task.args.temperature_low
      [] a = "target_temperature_high" -> task.args.temperature_high

\* C4: for every settable attribute with a template configured, on an entity
\* that is not optimistic, no command step changes the stored value or
\* publishes for it.
C4_GovernedNeverWrittenByCommands ==
    \A a \in SettableAttributes :
        (Governed(a) /\ CommandStep)
        => (attr[a] = event.before.attr[a] /\ a \notin event.wrote)

\* C4, the part that holds: the same for every settable attribute except
\* swing_horizontal_mode.
C4_HoldsForTemplatesRead ==
    \A a \in SettableAttributes \ {"swing_horizontal_mode"} :
        (Governed(a) /\ CommandStep)
        => (attr[a] = event.before.attr[a] /\ a \notin event.wrote)

\* C4 witness of the part that holds: a set_humidity command completed after
\* its script, on an entity whose target_humidity is governed, with the
\* stored value still the one a feed delivered while the script ran.
C4_Witness ==
    /\ Completed("set_humidity")
    /\ Governed("target_humidity")
    /\ task.invoked # <<>>
    /\ attr["target_humidity"] # None
    /\ attr["target_humidity"] # task.args.humidity

\* C5 as stated: on a non-optimistic entity an accepted set_temperature
\* command leaves every templated setpoint unchanged, writes exactly the
\* supplied setpoints without a template, and a publish is signalled if and
\* only if a setpoint was written.
C5_PublishIffSetpointWritten ==
    (Completed("set_temperature") /\ ~config.optimistic)
    => /\ \A a \in Setpoints :
            IF Supplied(a) # None /\ a \notin config.templates
            THEN attr[a] = Supplied(a) /\ a \in task.wrote
            ELSE attr[a] = event.before.attr[a] /\ a \notin task.wrote
       /\ (task.pubs > 0) <=> (task.wrote \cap Setpoints # {})

\* C5 amended: as stated, except that the publishes of the command are one
\* if a setpoint was written plus one if the carried hvac_mode changed the
\* mode; and no step before the last one touches a setpoint.
C5_SetpointGovernance ==
    /\ (Completed("set_temperature") /\ ~config.optimistic)
       => /\ \A a \in Setpoints :
               IF Supplied(a) # None /\ a \notin config.templates
               THEN attr[a] = Supplied(a) /\ a \in task.wrote
               ELSE attr[a] = event.before.attr[a] /\ a \notin task.wrote
          /\ task.pubs = (IF task.wrote \cap Setpoints # {} THEN 1 ELSE 0)
                         + (IF "hvac_mode" \in task.wrote THEN 1 ELSE 0)
    /\ (CommandStep /\ event.name = "set_temperature" /\ task.at # "done")
       => \A a \in Setpoints : attr[a] = event.before.attr[a] /\ a \notin task.wrote

\* C5 witness: target_temperature has a template, the entity is not
\* optimistic, set_temperature(temperature=t) completed, and nothing was
\* written or published.
C5_Witness ==
    /\ Completed("set_temperature")
    /\ ~config.optimistic
    /\ "target_temperature" \in config.templates
    /\ task.args.temperature # None
    /\ task.args.mode = None
    /\ attr["target_temperature"] # task.args.temperature
    /\ task.wrote = {}
    /\ task.pubs = 0

\* the attribute has no template, or the entity is optimistic
Owned(a) == a \notin config.templates \/ config.optimistic

OwnInvocations == {i \in 1..Len(task.invoked) : task.invoked[i].script = task.cmd}

\* C6 as stated: when a set command on an owned attribute completes without
\* error, the stored value is the commanded one and a publish was signalled;
\* with no action configured no script ran.
C6_WrittenAndPublished ==
    /\ \A cmd \in SetCommands :
        (Completed(cmd) /\ Owned(CommandAttribute(cmd)))
        => /\ attr[CommandAttribute(cmd)] = CommandValue(cmd, task.args)
           /\ task.pubs >= 1
           /\ (cmd \notin config.actions => task.invoked = <<>>)
    /\ Completed("set_temperature")
       => /\ \A a \in Setpoints :
               (Supplied(a) # None /\ Owned(a))
               => (attr[a] = Supplied(a) /\ task.pubs >= 1)
          /\ ("set_temperature" \notin config.actions => OwnInvocations = {})

\* C6 amended: as stated, except that set_hvac_mode with the mode the entity
\* already has writes and publishes nothing.
C6_WrittenAndPublishedUnlessSameMode ==
    /\ \A cmd \in SetCommands :
        (Completed(cmd) /\ Owned(CommandAttribute(cmd)))
        => /\ attr[CommandAttribute(cmd)] = CommandValue(cmd, task.args)
           /\ IF cmd = "set_hvac_mode" /\ event.before.attr["hvac_mode"] = task.args.mode
              THEN task.pubs = 0 /\ task.wrote = {}
              ELSE task.pubs = 1 /\ task.wrote = {CommandAttribute(cmd)}
           /\ (cmd \notin config.actions => task.invoked = <<>>)
    /\ Completed("set_temperature")
       => /\ \A a \in Setpoints :
               (Supplied(a) # None /\ Owned(a))
               => (attr[a] = Supplied(a) /\ a \in task.wrote /\ task.pubs >= 1)
          /\ ("set_temperature" \notin config.actions => OwnInvocations = {})

\* C6 witness: an optimistic entity with no template and no action,
\* set_hvac_mode completed: the mode is the commanded one, one publish, no
\* script.
C6_Witness ==
    /\ Completed("set_hvac_mode")
    /\ config.optimistic /\ config.templates = {} /\ config.actions = {}
    /\ attr["hvac_mode"] = task.args.mode
    /\ event.before.attr["hvac_mode"] # task.args.mode
    /\ task.pubs = 1
    /\ task.invoked = <<>>

\* the attributes a command type assigns
OwnAttributes(cmd) ==
    CASE cmd = "set_temperature" -> Setpoints
      [] cmd \in {"turn_on", "turn_off"} -> {}
      [] OTHER -> {CommandAttribute(cmd)}

\* the handler has reached or passed the call of its own script
AtOrPastOwnScript ==
    \/ task.at \in {"await_script", "done"}
    \/ (task.cmd = "set_hvac_mode" /\ task.at = "await_set_hvac_mode_script")

\* C7: for every command type with an action configured, an accepted command
\* runs that action exactly once with the command's payload, and assigns
\* nothing of its own while the action has not completed.
C7_ConfiguredActionRunsOnce ==
    (task.cmd \in config.actions /\ AtOrPastOwnScript)
    => /\ Cardinality(OwnInvocations) = 1
       /\ \A i \in OwnInvocations : task.invoked[i].vars = task.args
       /\ (task.at \in Awaiting => task.wrote \cap OwnAttributes(task.cmd) = {})

\* C7, the part that holds: the same for every command type except
\* set_swing_horizontal_mode.
C7_HoldsForActionsRead ==
    (/\ task.cmd \in config.actions \ {"set_swing_horizontal_mode"}
     /\ AtOrPastOwnScript)
    => /\ Cardinality(OwnInvocations) = 1
       /\ \A i \in OwnInvocations : task.invoked[i].vars = task.args
       /\ (task.at \in Awaiting => task.wrote \cap OwnAttributes(task.cmd) = {})

\* the script whose failure ended the handler
FailedScript == task.invoked[Len(task.invoked)].script

\* C8: when the script of a command fails, the failure reaches the caller,
\* the failing step writes and publishes nothing, the command has written
\* none of the attributes that script stands for, and the entity goes on
\* accepting commands and feed deliveries.
C8_ScriptFailureIsLocal ==
    (event.type = "resume" /\ event.raised = "ScriptError")
    => /\ task.at = "raised" /\ task.error = "ScriptError"
       /\ attr = event.before.attr
       /\ event.pubs = 0 /\ event.wrote = {}
       /\ task.wrote \cap OwnAttributes(FailedScript) = {}
       /\ phase = "added" /\ task.at \notin Awaiting
       /\ (nops < MaxOps => ENABLED SetHumidity)

\* C8 witness: the set_temperature script failed after the carried mode had
\* been applied: the mode stays, no setpoint was written, and the failure is
\* reported.
C8_Witness ==
    /\ event.type = "resume" /\ event.raised = "ScriptError"
    /\ task.cmd = "set_temperature"
    /\ FailedScript = "set_temperature"
    /\ "hvac_mode" \in task.wrote
    /\ task.args.temperature # None
    /\ attr["target_temperature"] # task.args.temperature
    /\ CanWrite("target_temperature")

\* an enum feed delivered a value that is neither valid nor a sentinel
InvalidEnumDelivery ==
    /\ event.type = "feed"
    /\ event.name \in EnumAttributes
    /\ ~(event.raw.kind = "str"
         /\ event.raw.str \in ValidValues(config, event.name)
                              \cup {STATE_UNKNOWN, STATE_UNAVAILABLE})

UncoercibleFloatDelivery ==
    /\ event.type = "feed"
    /\ event.name \in FloatAttributes
    /\ \/ event.raw.kind = "list"
       \/ (event.raw.kind = "str" /\ event.raw.str = "abc")

SentinelDelivery ==
    /\ event.type = "feed"
    /\ event.name \in FloatAttributes \cup EnumAttributes
    /\ IsSentinel(event.raw)

C11_WitnessEnum ==
    /\ SentinelDelivery
    /\ event.name \in EnumAttributes
    /\ event.raw.str = STATE_UNKNOWN
    /\ event.before.attr[event.name] # None
    /\ attr[event.name] = None

\* the value a float or enum feed stores for a delivery it can coerce
Coerced(a, raw) ==
    IF raw.kind = "none" \/ IsSentinel(raw) THEN None
    ELSE IF a \in FloatAttributes THEN Some(Float(raw).value)
    ELSE Some(raw.str)

\* the delivery is one the handler coerces without an error
Coercible(a, raw) ==
    IF a \in FloatAttributes
    THEN raw.kind = "none" \/ IsSentinel(raw) \/ Float(raw).ok
    ELSE IsSentinel(raw) \/ (raw.kind = "str" /\ raw.str \in ValidValues(config, a))

\* a float or enum feed delivered a value the handler coerced
CoercedDelivery ==
    /\ event.type = "feed"
    /\ event.name \in FloatAttributes \cup EnumAttributes
    /\ Coercible(event.name, event.raw)

\* C12: a float or enum feed delivery that coerces stores the coerced value;
\* when the coerced value equals the stored one nothing changes and the
\* handler signals no publish, so a second delivery of the same coerced
\* value changes and publishes nothing.
C12_FeedIdempotent ==
    CoercedDelivery
    => /\ attr[event.name] = Coerced(event.name, event.raw)
       /\ Coerced(event.name, event.raw) = event.before.attr[event.name]
          => (attr = event.before.attr /\ event.pubs = 0)

\* C12 witness: "20.5" arrived on a float feed that already held 20.5, which
\* only an earlier delivery of "20.5" can have stored.
C12_Witness ==
    /\ CoercedDelivery
    /\ event.name = "current_temperature"
    /\ event.raw.kind = "str"
    /\ event.before.attr[event.name] = Some(205)
    /\ attr = event.before.attr
    /\ event.pubs = 0

\* the features feed delivered the JSON text of a list of names, or one bare
\* name
NamesDelivery ==
    /\ event.type = "feed"
    /\ event.name = "hvac_features"
    /\ event.raw.kind = "text"
    /\ \/ (JsonLoads(event.raw.tokens).ok /\ JsonLoads(event.raw.tokens).is_list)
       \/ (Len(event.raw.tokens) = 1 /\ event.raw.tokens[1].t = "word")

\* the names of such a delivery
DeliveredNames(raw) ==
    IF JsonLoads(raw.tokens).ok
    THEN Elems(JsonLoads(raw.tokens).items)
    ELSE {raw.tokens[1].s}

\* C13: when the features feed delivers a list of names or one bare name,
\* the capability set is exactly the delivered names that belong to the
\* vocabulary, the exposed list holds exactly those names, an error is logged
\* exactly when a name was dropped, and nothing is raised.
C13_FeaturesAreDeliveredVocabularyNames ==
    NamesDelivery
    => /\ supported_features = DeliveredNames(event.raw) \cap FeatureNames
       /\ hvac_features.kind = "list"
       /\ Elems(hvac_features.list) = DeliveredNames(event.raw) \cap FeatureNames
       /\ event.logged <=> ~(DeliveredNames(event.raw) \subseteq FeatureNames)
       /\ event.raised = ""

\* C13 witness: the JSON text of a list with one name of the vocabulary and
\* one outside it arrived; only the first is kept.
C13_Witness ==
    /\ NamesDelivery
    /\ DeliveredNames(event.raw) = {"target_temperature_range", "bogus"}
    /\ supported_features = {"target_temperature_range"}
    /\ event.logged

\* C13, the three deliveries the claim names: ["turn_on","fan_mode"], bare
\* turn_on, and not_a_feature.
C13_NamedExamples ==
    NamesDelivery
    => /\ DeliveredNames(event.raw) = {"turn_on", "fan_mode"}
          => supported_features = {"turn_on", "fan_mode"}
       /\ DeliveredNames(event.raw) = {"turn_on"}
          => supported_features = {"turn_on"}
       /\ DeliveredNames(event.raw) = {"not_a_feature"}
          => supported_features = {}

\* the features feed delivered an empty or absent value
EmptyFeaturesDelivery ==
    /\ event.type = "feed"
    /\ event.name = "hvac_features"
    /\ (event.raw.kind = "none" \/ event.raw.tokens = <<>>)

\* C14: after an empty or absent delivery of the features feed the
\* capability set is empty, and after every delivery of that feed the
\* capability set is the one the exposed hvac_features list stands for.
C14_EmptyFeedClearsCapabilities ==
    (event.type = "feed" /\ event.name = "hvac_features")
    => /\ EmptyFeaturesDelivery => supported_features = {}
       /\ supported_features = _update_supported_features(hvac_features)

\* C14, the part that holds: an empty or absent delivery empties the exposed
\* list and raises nothing, and leaves the capability set as it was.
C14_EmptyFeedClearsListOnly ==
    EmptyFeaturesDelivery
    => /\ hvac_features = FeatureList(<<>>)
       /\ supported_features = event.before.supported_features
       /\ ~event.logged /\ event.raised = ""

\* C14 state of the divergence: an empty delivery after a list was delivered;
\* the exposed list is empty and the capabilities of the old list are still
\* set.
C14_StaleCapabilities ==
    /\ EmptyFeaturesDelivery
    /\ event.before.hvac_features = FeatureList(<<"turn_on", "fan_mode">>)
    /\ hvac_features = FeatureList(<<>>)
    /\ supported_features = {"turn_on", "fan_mode"}

\* no features template is configured
StaticFeatures == "hvac_features" \notin config.templates

\* C15: without a features template the capability set is the one computed
\* at construction in every state: no restore, command step or feed delivery
\* changes it.
C15_StaticFeaturesNeverChange ==
    StaticFeatures
    => /\ supported_features =
            _init_features(config.optimistic, _init_templates(config),
                           _init_scripts(config))
       /\ supported_features = event.before.supported_features
       /\ hvac_features = NoFeatures

\* C15 witness: a static entity was restored from a state that carries a
\* stored feature name; the capability set is still the construction value,
\* not what the stored name stands for.
C15_Witness ==
    /\ StaticFeatures
    /\ event.type = "restore"
    /\ event.last_state.hvac_features = FeatureStr("target_temperature_range")
    /\ supported_features = {"turn_on", "turn_off"}

\* the static capability set the configuration stands for
ConfiguredCapability(f) ==
    CASE f = "target_temperature" ->
            \/ config.optimistic
            \/ "target_temperature" \in config.templates
            \/ "set_temperature" \in config.actions
      [] f = "target_temperature_range" ->
            \/ config.optimistic
            \/ "target_temperature_low" \in config.templates
            \/ "target_temperature_high" \in config.templates
            \/ "set_temperature" \in config.actions
      [] f = "target_humidity" ->
            "target_humidity" \in config.templates \/ "set_humidity" \in config.actions
      [] OTHER ->
            f \in config.templates \/ ("set_" \o f) \in config.actions

\* C16: without a features template, each of the seven configurable
\* capabilities is in the capability set if and only if the configuration
\* carries its template or its set action (or, for the two temperature
\* capabilities, the optimistic flag).
C16_StaticFeaturesFollowConfiguration ==
    StaticFeatures
    => \A f \in FeatureNames \ {"turn_on", "turn_off"} :
          (f \in supported_features) <=> ConfiguredCapability(f)

\* C16, the part that holds: the same for every capability except
\* swing_horizontal_mode; turn_on and turn_off are always present.
C16_HoldsForOptionsRead ==
    StaticFeatures
    => /\ \A f \in FeatureNames \ {"turn_on", "turn_off", "swing_horizontal_mode"} :
             (f \in supported_features) <=> ConfiguredCapability(f)
       /\ {"turn_on", "turn_off"} \subseteq supported_features
       /\ "swing_horizontal_mode" \notin supported_features

\* C16 state of the divergence: the configuration carries a
\* swing_horizontal_mode template and the capability is missing.
C16_MissingSwingHorizontal ==
    /\ StaticFeatures
    /\ "swing_horizontal_mode" \in config.templates
    /\ "swing_horizontal_mode" \notin supported_features
    /\ "target_humidity" \in supported_features

\* the hvac_mode construction leaves: off when off is configured and the
\* entity owns hvac_mode, unset otherwise
DefaultHvacMode ==
    IF OFF \in config.modes /\ ("hvac_mode" \notin config.templates \/ config.optimistic)
    THEN Some(OFF) ELSE None

\* C17: a restore from a state whose mode is in the configured list sets
\* hvac_mode to that mode; from any other state, or with nothing to restore,
\* hvac_mode keeps the construction default.
C17_RestoreOfHvacMode ==
    /\ event.type = "construct" => attr["hvac_mode"] = DefaultHvacMode
    /\ event.type = "restore"
       => attr["hvac_mode"] =
            IF event.last_state.present /\ event.last_state.state \in config.modes
            THEN Some(event.last_state.state)
            ELSE DefaultHvacMode

\* C17 witness: the restored state's mode is not configured, and hvac_mode
\* is still the default off.
C17_Witness ==
    /\ event.type = "restore"
    /\ event.last_state.present
    /\ event.last_state.state \notin config.modes
    /\ attr["hvac_mode"] = Some(OFF)

\* C17 witness of the other branch: the restored state's mode is configured
\* and replaced the default.
C17_WitnessRestored ==
    /\ event.type = "restore"
    /\ event.last_state.state = HEAT_COOL
    /\ event.before.attr["hvac_mode"] = Some(OFF)
    /\ attr["hvac_mode"] = Some(HEAT_COOL)

\* a restore, with a features template configured, from a state that carries
\* a stored list of vocabulary names
RestoreWithFeatureList ==
    /\ event.type = "restore"
    /\ "hvac_features" \in config.templates
    /\ event.last_state.present
    /\ event.last_state.hvac_features.kind = "list"
    /\ Elems(event.last_state.hvac_features.list) \subseteq FeatureNames

\* C18: after such a restore the entity's hvac_features is the stored list
\* and the capability set is the set of its names.
C18_RestoreRecomputesFeatures ==
    RestoreWithFeatureList
    => /\ hvac_features = event.last_state.hvac_features
       /\ supported_features = Elems(event.last_state.hvac_features.list)

\* C18, what the restore does with a stored list: nothing.
C18_ListIsNotRestored ==
    RestoreWithFeatureList
    => /\ hvac_features = NoFeatures
       /\ supported_features = {}
       /\ extra_state_attributes = Some(NoFeatures)

\* C18 state of the divergence: the stored list ["turn_on", "fan_mode"] was
\* there to restore and the entity has no feature list and no capability.
C18_FeatureListLost ==
    /\ RestoreWithFeatureList
    /\ event.last_state.hvac_features = FeatureList(<<"turn_on", "fan_mode">>)
    /\ hvac_features = NoFeatures
    /\ supported_features = {}

\* C19: in every reachable state the exposed target_temperature is absent
\* when hvac_mode is heat_cool, and the exposed target_temperature_low and
\* target_temperature_high are absent when hvac_mode is anything else,
\* unset included.
C19_SetpointExclusivity ==
    /\ attr["hvac_mode"] = Some(HEAT_COOL) => target_temperature = None
    /\ attr["hvac_mode"] # Some(HEAT_COOL)
       => (target_temperature_low = None /\ target_temperature_high = None)

\* C19 witness: a command changed the mode to heat_cool while all three
\* setpoints are stored; the single setpoint is hidden, the range is exposed.
C19_Witness ==
    /\ CommandStep
    /\ "hvac_mode" \in event.wrote
    /\ attr["hvac_mode"] = Some(HEAT_COOL)
    /\ attr["target_temperature"] # None
    /\ target_temperature = None
    /\ target_temperature_low # None /\ target_temperature_high # None

\* unset, or one of the configured modes
ConfiguredOrUnset(m) == m = None \/ Val(m) \in config.modes

\* C20: in every reachable state hvac_mode is unset or one of the configured
\* modes.
C20_HvacModeClosed == ConfiguredOrUnset(attr["hvac_mode"])

\* C20, the part that holds: construction leaves a configured mode or none,
\* and every step other than one of a set_hvac_mode command keeps hvac_mode
\* within the configured modes.
C20_ClosedExceptSetHvacMode ==
    /\ event.type = "construct" => ConfiguredOrUnset(attr["hvac_mode"])
    /\ (/\ ConfiguredOrUnset(event.before.attr["hvac_mode"])
        /\ ~(event.type \in {"command", "resume"} /\ event.name = "set_hvac_mode"))
       => ConfiguredOrUnset(attr["hvac_mode"])

\* C20 state of the divergence: set_hvac_mode stored a mode that is not
\* configured.
C20_UnconfiguredModeStored ==
    /\ Completed("set_hvac_mode")
    /\ Val(task.args.mode) \notin config.modes
    /\ attr["hvac_mode"] = task.args.mode
    /\ task.pubs = 1

\* the command in flight has ended, with or without an error
Finished == task.at \in {"done", "raised"}

\* C21 as stated: for every attribute with a template, once the command
\* that was in flight has ended, the stored value is the value of the most
\* recent delivery of the attribute's feed made while the command was in
\* flight (a delivery the handler accepted).
C21_FeedWinsForEveryTemplate ==
    Finished
    => \A a \in Attributes :
          (a \in config.templates /\ fed[a].seen /\ fed[a].ok)
          => attr[a] = fed[a].value

\* C21 amended: the same for every attribute with a template on an entity
\* that is not optimistic.
C21_FeedWinsWhenGoverned ==
    Finished
    => \A a \in Attributes :
          (Governed(a) /\ fed[a].seen /\ fed[a].ok) => attr[a] = fed[a].value

\* C21 witness: a set_humidity command waited for its script, the
\* target_humidity feed delivered a value meanwhile, the script returned,
\* and the stored value is the delivered one, not the commanded one.
C21_Witness ==
    /\ event.type = "resume"
    /\ task.cmd = "set_humidity" /\ task.at = "done"
    /\ Governed("target_humidity")
    /\ fed["target_humidity"].seen /\ fed["target_humidity"].ok
    /\ fed["target_humidity"].value # None
    /\ attr["target_humidity"] = fed["target_humidity"].value
    /\ attr["target_humidity"] # task.args.humidity

\* a float or enum feed delivered a value its handler logged as invalid
BadDelivery ==
    /\ event.type = "feed"
    /\ event.name \in FloatAttributes \cup EnumAttributes
    /\ event.logged

\* C22: a delivery logged as invalid changes no attribute other than the one
\* bound to its feed, nor the feature list or the capability set, raises
\* nothing, and leaves the feeds able to deliver; a valid value delivered
\* next on the same feed is stored.
C22_BadValueDisablesNothing ==
    /\ BadDelivery
       => /\ \A a \in Attributes \ {event.name} : attr[a] = event.before.attr[a]
          /\ hvac_features = event.before.hvac_features
          /\ supported_features = event.before.supported_features
          /\ event.raised = ""
          /\ phase = "added"
          /\ templates = _init_templates(config)
          /\ nops < MaxOps => (ENABLED UpdateFloat \/ ENABLED UpdateEnum)
    /\ (event.after_bad /\ CoercedDelivery)
       => (attr[event.name] = Coerced(event.name, event.raw) /\ ~event.logged)

\* C22 witness: "abc" and then "20.5" arrived on the current_temperature
\* feed; the second value is stored.
C22_Witness ==
    /\ event.after_bad
    /\ event.name = "current_temperature"
    /\ event.raw.kind = "str"
    /\ attr["current_temperature"] = Some(205)

\* C22 witness for an enum feed: an out-of-set value and then a valid value
\* arrived on the same feed; the valid value is stored.
C22_WitnessEnum ==
    /\ event.after_bad
    /\ event.name \in EnumAttributes
    /\ event.raw.kind = "str"
    /\ event.before.attr[event.name] = None
    /\ attr[event.name] = Some(event.raw.str)

\* a set_hvac_mode command began while the entity had the requested mode
SelfTransitionStart ==
    /\ event.type = "command"
    /\ event.name = "set_hvac_mode"
    /\ event.before.attr["hvac_mode"] = task.args.mode

\* C23 as stated: a set_hvac_mode command for the mode the entity already
\* has changes no state, signals no publish and triggers nothing else.
C23_SelfTransitionDoesNothing ==
    SelfTransitionStart
    => /\ attr = event.before.attr
       /\ event.pubs = 0
       /\ event.invoked = <<>>
       /\ task.at = "done"

\* the handler of a set_hvac_mode command reached its mode test while the
\* entity had the requested mode
SelfTransitionEnd ==
    /\ Completed("set_hvac_mode")
    /\ event.before.attr["hvac_mode"] = task.args.mode

\* C23 amended: such a command changes no state and signals no publish; a
\* configured set_hvac_mode action is still run, once, before the mode is
\* compared.
C23_SelfTransitionWritesNothing ==
    /\ SelfTransitionStart
       => /\ attr = event.before.attr
          /\ event.pubs = 0
          /\ event.invoked = IF "set_hvac_mode" \in config.actions
                             THEN <<Invocation("set_hvac_mode", task.args)>>
                             ELSE <<>>
          /\ task.at = IF "set_hvac_mode" \in config.actions
                       THEN "await_set_hvac_mode_script" ELSE "done"
    /\ SelfTransitionEnd
       => /\ attr = event.before.attr
          /\ hvac_features = event.before.hvac_features
          /\ supported_features = event.before.supported_features
          /\ task.pubs = 0 /\ task.wrote = {}
          /\ Len(task.invoked) = IF "set_hvac_mode" \in config.actions THEN 1 ELSE 0

\* C23 witness: set_hvac_mode for the current mode on an entity that owns
\* hvac_mode and has the action configured: the action ran, nothing was
\* written or published.
C23_Witness ==
    /\ SelfTransitionEnd
    /\ event.type = "resume"
    /\ CanWrite("hvac_mode")
    /\ Len(task.invoked) = 1
    /\ task.pubs = 0 /\ task.wrote = {}

\* the hvac_mode a set_temperature command carries is a configured mode
CarriesConfiguredMode ==
    task.args.mode # None /\ Val(task.args.mode) \in config.modes

\* the positions at which the command in flight called a script
InvocationsOf(script) ==
    {i \in 1..Len(task.invoked) : task.invoked[i].script = script}

\* an accepted set_temperature command is in flight or has ended
AcceptedSetTemperature ==
    task.cmd = "set_temperature" /\ task.error # "ValueError"

\* C24: an accepted set_temperature command with a configured hvac_mode runs
\* the whole set_hvac_mode handling (script, then write and publish) before
\* the set_temperature script is called and before any setpoint is written;
\* if the set_temperature script fails the mode stays changed and no
\* setpoint is written.  With a carried mode that is not configured there is
\* no mode change and no set_hvac_mode script, and the set_temperature
\* script and the setpoint writes go on.
C24_CarriedModeComesFirst ==
    AcceptedSetTemperature
    => /\ CarriesConfiguredMode
          => /\ Cardinality(InvocationsOf("set_hvac_mode")) =
                    IF "set_hvac_mode" \in config.actions THEN 1 ELSE 0
             /\ \A i \in InvocationsOf("set_hvac_mode") :
                    /\ i = 1
                    /\ task.invoked[i].vars = [NoArgs EXCEPT !.mode = task.args.mode]
             /\ task.at = "await_set_hvac_mode_script"
                => (task.wrote = {} /\ task.pubs = 0
                    /\ InvocationsOf("set_temperature") = {})
             /\ (task.at \in {"await_script", "raised"}
                 /\ InvocationsOf("set_temperature") # {})
                => /\ task.wrote \subseteq {"hvac_mode"}
                   /\ task.pubs = Cardinality(task.wrote)
                   /\ (CommandStep /\ CanWrite("hvac_mode") /\ ~fed["hvac_mode"].seen)
                      => attr["hvac_mode"] = task.args.mode
       /\ ~CarriesConfiguredMode
          => /\ InvocationsOf("set_hvac_mode") = {}
             /\ "hvac_mode" \notin task.wrote
             /\ Cardinality(InvocationsOf("set_temperature")) =
                    IF "set_temperature" \in config.actions THEN 1 ELSE 0
             /\ Completed("set_temperature")
                => \A a \in Setpoints :
                       (Supplied(a) # None /\ CanWrite(a))
                       => (a \in task.wrote /\ attr[a] = Supplied(a))
       /\ (task.at = "raised") => (task.wrote \cap Setpoints = {})

\* C24 witness: the set_hvac_mode script returned, the mode was changed and
\* published, then the set_temperature script failed; the mode is the
\* carried one and no setpoint was written.
C24_Witness ==
    /\ AcceptedSetTemperature
    /\ CarriesConfiguredMode
    /\ task.at = "raised"
    /\ Len(task.invoked) = 2
    /\ task.invoked[2].script = "set_temperature"
    /\ task.wrote = {"hvac_mode"}
    /\ task.pubs = 1
    /\ attr["hvac_mode"] = task.args.mode

\* C24 witness of the second half: the carried mode is not configured, the
\* command completed, the mode is not the carried one and the supplied
\* range was written.
C24_WitnessUnconfigured ==
    /\ AcceptedSetTemperature
    /\ task.args.mode # None /\ ~CarriesConfiguredMode
    /\ task.at = "done"
    /\ attr["hvac_mode"] # task.args.mode
    /\ "target_temperature_low" \in task.wrote
    /\ Len(task.invoked) = 1

\* the features feed delivered a text that is JSON but not a list
NonListJsonDelivery ==
    /\ event.type = "feed"
    /\ event.name = "hvac_features"
    /\ event.raw.kind = "text"
    /\ event.raw.tokens # <<>>
    /\ JsonLoads(event.raw.tokens).ok
    /\ ~JsonLoads(event.raw.tokens).is_list

\* the features feed delivered a text that is not JSON
NonJsonDelivery ==
    /\ event.type = "feed"
    /\ event.name = "hvac_features"
    /\ event.raw.kind = "text"
    /\ event.raw.tokens # <<>>
    /\ ~JsonLoads(event.raw.tokens).ok

\* C25: a features delivery that is JSON but not a list is refused whole:
\* the feature list and the capability set keep their values, an error is
\* logged and nothing is raised; a delivery that is not JSON is taken as one
\* bare name.
C25_NonListJsonRejected ==
    /\ NonListJsonDelivery
       => /\ hvac_features = event.before.hvac_features
          /\ supported_features = event.before.supported_features
          /\ event.logged
          /\ event.raised = ""
    /\ NonJsonDelivery
       => /\ hvac_features =
                FeatureList(IF WholeText(event.raw.tokens) \in FeatureNames
                            THEN <<WholeText(event.raw.tokens)>> ELSE <<>>)
          /\ supported_features = {WholeText(event.raw.tokens)} \cap FeatureNames

\* C25 witness: a number arrived after a list had set two capabilities; both
\* are still set.
C25_Witness ==
    /\ NonListJsonDelivery
    /\ event.raw.tokens = <<JNum("5")>>
    /\ hvac_features = FeatureList(<<"turn_on", "fan_mode">>)
    /\ supported_features = {"turn_on", "fan_mode"}

\* a step that is neither part of a set_temperature command, nor a delivery
\* of a setpoint feed, nor the restore
NoSetpointStep ==
    \/ (event.type \in {"command", "resume"} /\ event.name # "set_temperature")
    \/ (event.type = "feed" /\ event.name \notin Setpoints)

\* C26: a step that is not a set_temperature command step, a setpoint feed
\* delivery or the restore leaves the three stored setpoints as they were,
\* and the exposed setpoints are the stored ones whenever the mode does not
\* hide them; so leaving and re-entering a mode shows the value that was
\* there before.
C26_ModeChangeKeepsSetpoints ==
    /\ NoSetpointStep => \A s \in Setpoints : attr[s] = event.before.attr[s]
    /\ attr["hvac_mode"] # Some(HEAT_COOL)
       => target_temperature = attr["target_temperature"]
    /\ attr["hvac_mode"] = Some(HEAT_COOL)
       => /\ target_temperature_low = attr["target_temperature_low"]
          /\ target_temperature_high = attr["target_temperature_high"]

\* C26 witness: a command took the entity out of heat_cool, where
\* target_temperature was hidden; target_temperature reads the stored value,
\* which the step did not touch.
C26_Witness ==
    /\ CommandStep
    /\ event.name = "set_hvac_mode"
    /\ event.before.attr["hvac_mode"] = Some(HEAT_COOL)
    /\ attr["hvac_mode"] = Some("heat")
    /\ "target_temperature" \notin config.templates
    /\ target_temperature # None
    /\ target_temperature = event.before.attr["target_temperature"]

\* C26 witness of the symmetric case: a command took the entity into
\* heat_cool; the range reads the stored values, which the step did not
\* touch.
C26_WitnessRange ==
    /\ CommandStep
    /\ event.name = "set_hvac_mode"
    /\ event.before.attr["hvac_mode"] # Some(HEAT_COOL)
    /\ attr["hvac_mode"] = Some(HEAT_COOL)
    /\ target_temperature = None
    /\ target_temperature_low # None
    /\ target_temperature_low = event.before.attr["target_temperature_low"]
    /\ target_temperature_high = event.before.attr["target_temperature_high"]

====
